---- MODULE Spec2Model ----
(***************************************************************************)
(* A model of the VirtuGhan A4 helpers: src/a_4_utils.py (fetch_index_tile,*)
(* compute_index, save_tile_image, VirtualCube) and the earlier trial      *)
(* src/Other_Trials/A4_utils.py (fetch_ndvi_tile, compute_ndvi,            *)
(* save_tile_image).                                                       *)
(*                                                                         *)
(* Python strings are sequences of one-character strings, so that the      *)
(* f-string formatting of file names is computed character by character.   *)
(* Band values are fixed-point numbers counted in units of 1e-6, so that   *)
(* the epsilon the code adds to a denominator is the integer Eps; the      *)
(* arithmetic on them is exact, the rounding of float32 is not modelled.   *)
(***************************************************************************)
EXTENDS Integers, Sequences, FiniteSets, TLC

VARIABLES
    tiles,      \* VirtualCube.tiles: insertion-ordered dict, a sequence of [key, value]
    latest,     \* history: (coords, name) -> the value of the most recent add_tile
    call,       \* the operation called last and its arguments
    ret,        \* how that call ended: returned a value, or raised
    writes,     \* the image.save attempts of that call, in order
    out,        \* the lines that call printed
    pc,         \* "idle", or "blocked" inside loop.run_until_complete
    req,        \* the cached_generate_tile request of the current fetch
    issued,     \* number of cached_generate_tile calls the current fetch has made
    nir_array,  \* input of compute_index / compute_ndvi
    red_array,  \* input of compute_index / compute_ndvi
    divisor     \* the array compute_index / compute_ndvi divided by

vars == <<tiles, latest, call, ret, writes, out, pc, req, issued,
          nir_array, red_array, divisor>>

-----------------------------------------------------------------------------
(* Bounds and input domains *)

MaxTiles == 2
MaxLen == 2

Images == {"img1", "img2"}
Features == {"feat1", "feat2"}
\* the (image, metadata) pairs handed to add_tile: an image and its own feature
TilePairs == {<<"img1", "feat1">>, <<"img2", "feat2">>}
Names == {<<"a">>, <<"a", "_", "1">>}
Folders == {<<".">>, <<"o", "_", "1">>}
\* (x, y, z) tiles of zoom 1
Coords == {<<0, 0, 1>>, <<0, 1, 1>>}
BandValues == {-1, 0, 1, 2}

-----------------------------------------------------------------------------
(* Python str(int) and the f-strings that build file names *)

DigitChars == <<"0", "1", "2", "3", "4", "5", "6", "7", "8", "9">>

RECURSIVE NatToStr(_)
NatToStr(n) ==
    IF n < 10 THEN <<DigitChars[n + 1]>>
    ELSE NatToStr(n \div 10) \o <<DigitChars[(n % 10) + 1]>>

IntToStr(n) == IF n < 0 THEN <<"-">> \o NatToStr(-n) ELSE NatToStr(n)

PngSuffix == <<".", "p", "n", "g">>
TilePrefix == <<"t", "i", "l", "e">>
Us == <<"_">>

\* a_4_utils.save_tile_image: f"{output_folder}/tile_{z}_{x}_{y}.png"
TilePath(output_folder, x, y, z) ==
    output_folder \o <<"/">> \o TilePrefix \o Us \o IntToStr(z) \o Us
        \o IntToStr(x) \o Us \o IntToStr(y) \o PngSuffix

\* Other_Trials save_tile_image: f"{output_folder}/tile_{x}_{y}_{z}.png"
TrialTilePath(output_folder, x, y, z) ==
    output_folder \o <<"/">> \o TilePrefix \o Us \o IntToStr(x) \o Us
        \o IntToStr(y) \o Us \o IntToStr(z) \o PngSuffix

\* mutants of CubePath: the trial's coordinate order, and the name left out
CubePathXYZ(output_folder, key) ==
    output_folder \o <<"/">> \o key[4] \o Us \o IntToStr(key[1]) \o Us
        \o IntToStr(key[2]) \o Us \o IntToStr(key[3]) \o PngSuffix

CubePathNoName(output_folder, key) ==
    output_folder \o <<"/">> \o TilePrefix \o Us \o IntToStr(key[3]) \o Us
        \o IntToStr(key[1]) \o Us \o IntToStr(key[2]) \o PngSuffix

\* VirtualCube.save_all: f"{output_folder}/{name}_{z}_{x}_{y}.png", key = (x, y, z, name)
CubePath(output_folder, key) ==
    output_folder \o <<"/">> \o key[4] \o Us \o IntToStr(key[3]) \o Us
        \o IntToStr(key[1]) \o Us \o IntToStr(key[2]) \o PngSuffix

-----------------------------------------------------------------------------
(* The dict self.tiles *)

\* key = (*coords, name)
TileKey(coords, name) == coords \o <<name>>

KeyIndex(d, k) ==
    IF \E i \in 1..Len(d) : d[i].key = k
    THEN CHOOSE i \in 1..Len(d) : d[i].key = k
    ELSE 0

DictKeys(d) == [i \in 1..Len(d) |-> d[i].key]

\* d[k] = v: an existing key keeps its position, a new key goes last
DictSet(d, k, v) ==
    IF KeyIndex(d, k) # 0
    THEN [d EXCEPT ![KeyIndex(d, k)] = [key |-> k, value |-> v]]
    ELSE Append(d, [key |-> k, value |-> v])

None == [tag |-> "None"]
Returned(v) == [outcome |-> "returned", value |-> v]
Raised(e) == [outcome |-> "raised", error |-> e]
Pair(image, metadata) == [tag |-> "tuple", image |-> image, metadata |-> metadata]

\* d.get(k, None)
DictGet(d, k) == IF KeyIndex(d, k) # 0 THEN d[KeyIndex(d, k)].value ELSE None

NoReq == [status |-> "none"]

\* a call starts when no fetch is blocked; the locals of an earlier fetch are gone
EngineIdle == pc = "idle" /\ pc' = "idle" /\ req' = NoReq /\ issued' = 0
ArraysSame == UNCHANGED <<nir_array, red_array, divisor>>

-----------------------------------------------------------------------------
(* VirtualCube *)

\* mutant: the key leaves the name out
add_tile_coords_only(name, image, metadata, coords) ==
    /\ KeyIndex(tiles, coords) # 0 \/ Len(tiles) < MaxTiles
    /\ tiles' = DictSet(tiles, coords, Pair(image, metadata))
    /\ latest' = [k \in DOMAIN latest \cup {<<coords, name>>} |->
                    IF k = <<coords, name>> THEN Pair(image, metadata) ELSE latest[k]]
    /\ call' = [op |-> "add_tile", name |-> name, coords |-> coords]
    /\ ret' = Returned(None)
    /\ writes' = <<>> /\ out' = <<>>
    /\ EngineIdle /\ ArraysSame

\* self.tiles[key] = (image, metadata); the store is explored up to MaxTiles entries
add_tile(name, image, metadata, coords) ==
    /\ KeyIndex(tiles, TileKey(coords, name)) # 0 \/ Len(tiles) < MaxTiles
    /\ tiles' = DictSet(tiles, TileKey(coords, name), Pair(image, metadata))
    /\ latest' = [k \in DOMAIN latest \cup {<<coords, name>>} |->
                    IF k = <<coords, name>> THEN Pair(image, metadata) ELSE latest[k]]
    /\ call' = [op |-> "add_tile", name |-> name, coords |-> coords]
    /\ ret' = Returned(None)
    /\ writes' = <<>> /\ out' = <<>>
    /\ EngineIdle /\ ArraysSame

list_tiles ==
    /\ call' = [op |-> "list_tiles"]
    /\ ret' = Returned([tag |-> "list", items |-> DictKeys(tiles)])
    /\ writes' = <<>> /\ out' = <<>>
    /\ UNCHANGED <<tiles, latest>>
    /\ EngineIdle /\ ArraysSame

\* mutant: the key is built zoom first, (z, x, y, name), as the file names are
get_tile_zoom_first(name, coords) ==
    /\ call' = [op |-> "get_tile", name |-> name, coords |-> coords]
    /\ ret' = Returned(DictGet(tiles, <<coords[3], coords[1], coords[2], name>>))
    /\ writes' = <<>> /\ out' = <<>>
    /\ UNCHANGED <<tiles, latest>>
    /\ EngineIdle /\ ArraysSame

\* mutant: self.tiles.pop(key, None), the lookup takes the entry out
get_tile_pop(name, coords) ==
    /\ call' = [op |-> "get_tile", name |-> name, coords |-> coords]
    /\ ret' = Returned(DictGet(tiles, TileKey(coords, name)))
    /\ tiles' = SelectSeq(tiles, LAMBDA e : e.key # TileKey(coords, name))
    /\ writes' = <<>> /\ out' = <<>>
    /\ UNCHANGED latest
    /\ EngineIdle /\ ArraysSame

get_tile(name, coords) ==
    /\ call' = [op |-> "get_tile", name |-> name, coords |-> coords]
    /\ ret' = Returned(DictGet(tiles, TileKey(coords, name)))
    /\ writes' = <<>> /\ out' = <<>>
    /\ UNCHANGED <<tiles, latest>>
    /\ EngineIdle /\ ArraysSame

\* mutant: a failed img.save is swallowed and the loop goes on
SaveAllWritesContinue(d, output_folder, failAt) ==
    [i \in 1..Len(d) |->
        [path |-> CubePath(output_folder, d[i].key),
         image |-> d[i].value.image,
         ok |-> i # failAt]]

\* the img.save calls of save_all; the failAt-th raises (0: none does) and ends the loop
SaveAllWrites(d, output_folder, failAt) ==
    [i \in 1..(IF failAt = 0 THEN Len(d) ELSE failAt) |->
        [path |-> CubePath(output_folder, d[i].key),
         image |-> d[i].value.image,
         ok |-> i # failAt]]

SavedMessage(n, output_folder) ==
    [text |-> "Saved {n} tiles to {output_folder}", n |-> n, folder |-> output_folder]

save_all(output_folder, failAt) ==
    /\ failAt \in 0..Len(tiles)
    /\ call' = [op |-> "save_all", folder |-> output_folder, failAt |-> failAt]
    /\ writes' = SaveAllWrites(tiles, output_folder, failAt)
    /\ IF \A i \in 1..Len(writes') : writes'[i].ok
       THEN /\ ret' = Returned(None)
            /\ out' = <<SavedMessage(Len(tiles), output_folder)>>
       ELSE /\ ret' = Raised("OSError")
            /\ out' = <<>>
    /\ UNCHANGED <<tiles, latest>>
    /\ EngineIdle /\ ArraysSame

-----------------------------------------------------------------------------
(* save_tile_image, in a_4_utils.py and in Other_Trials/A4_utils.py *)

SavedTileMessage(filename) == [text |-> "Saved tile image as: {filename}", filename |-> filename]

\* image.save(filename) either writes the file or raises; print follows a write only
SaveImage(fn, filename, image, x, y, z, output_folder, ok) ==
    /\ call' = [op |-> fn, image |-> image, x |-> x, y |-> y, z |-> z,
                folder |-> output_folder]
    /\ writes' = <<[path |-> filename, image |-> image, ok |-> ok]>>
    /\ IF ok
       THEN ret' = Returned(None) /\ out' = <<SavedTileMessage(filename)>>
       ELSE ret' = Raised("OSError") /\ out' = <<>>
    /\ UNCHANGED <<tiles, latest>>
    /\ EngineIdle /\ ArraysSame

save_tile_image(image, x, y, z, output_folder, ok) ==
    SaveImage("save_tile_image", TilePath(output_folder, x, y, z),
              image, x, y, z, output_folder, ok)

Other_Trials_save_tile_image(image, x, y, z, output_folder, ok) ==
    SaveImage("Other_Trials.save_tile_image", TrialTilePath(output_folder, x, y, z),
              image, x, y, z, output_folder, ok)

-----------------------------------------------------------------------------
(* fetch_index_tile and fetch_ndvi_tile *)

Lats == {-45, 45}
Lons == {-90, 90}
Zooms == {0, 1}
PngBytes == {"png1", "png2", "junk"}
FetchFns == {"fetch_index_tile", "fetch_ndvi_tile"}
LoopStates == {"ready", "running"}

Pow2(n) == IF n = 0 THEN 1 ELSE 2

\* mercantile.tile(lng, lat, zoom) for zoom 0 and 1 and whole degrees inside the
\* Web Mercator range: x counts eastwards from longitude -180, y southwards from
\* the northern edge, the equator being the boundary between y = 0 and y = 1
Tile(lng, lat, zoom) ==
    <<((lng + 180) * Pow2(zoom)) \div 360,
      IF zoom = 0 THEN 0 ELSE IF lat > 0 THEN 0 ELSE 1,
      zoom>>

\* the keyword arguments both functions pass on to cached_generate_tile
DefaultParams ==
    [start_date |-> "2024-04-01", end_date |-> "2024-04-30", cloud_cover |-> 30,
     band1 |-> "red", band2 |-> "nir", formula |-> "(band2-band1)/(band2+band1)",
     colormap_str |-> "RdYlGn"]

\* Image.open(BytesIO(image_bytes)) raises on bytes that are no image
Decodable(b) == b \in {"png1", "png2"}
ImageOpen(b) == IF b = "png1" THEN "img1" ELSE "img2"

\* x, y, z = mercantile.tile(...); cached_generate_tile(...) is called once and gives
\* the coroutine of the request; run_until_complete runs it on a ready loop, and on a
\* loop that is already running raises RuntimeError with the coroutine never started
FetchCall(fn, lat, lon, zoom, loop) ==
    /\ pc = "idle"
    /\ call' = [op |-> fn, lat |-> lat, lon |-> lon, zoom |-> zoom,
                coords |-> Tile(lon, lat, zoom)]
    /\ writes' = <<>> /\ out' = <<>>
    /\ IF loop = "ready"
       THEN /\ req' = [status |-> "pending", coords |-> Tile(lon, lat, zoom),
                       params |-> DefaultParams]
            /\ issued' = 1
            /\ pc' = "blocked"
            /\ ret' = [outcome |-> "pending"]
       ELSE /\ req' = [status |-> "created", coords |-> Tile(lon, lat, zoom),
                       params |-> DefaultParams]
            /\ issued' = 1
            /\ pc' = "idle"
            /\ ret' = Raised("RuntimeError")
    /\ UNCHANGED <<tiles, latest>>
    /\ ArraysSame

\* the external engine finishes the request with encoded image bytes and a feature
EngineComplete(bytes, feature) ==
    /\ pc = "blocked" /\ req.status = "pending"
    /\ req' = [req EXCEPT !.status = "done"] @@ [bytes |-> bytes, feature |-> feature]
    /\ UNCHANGED <<tiles, latest, call, ret, writes, out, pc, issued>>
    /\ ArraysSame

\* the external engine fails the request
EngineFail ==
    /\ pc = "blocked" /\ req.status = "pending"
    /\ req' = [req EXCEPT !.status = "failed"]
    /\ UNCHANGED <<tiles, latest, call, ret, writes, out, pc, issued>>
    /\ ArraysSame

FetchResult(fn, image, feature, coords) ==
    IF fn = "fetch_index_tile"
    THEN [tag |-> "tuple", image |-> image, feature |-> feature, coords |-> coords]
    ELSE [tag |-> "tuple", image |-> image, feature |-> feature]

\* mutant: the coroutine is scheduled and not awaited; the function returns at once
\* with whatever the request holds
FetchReturnNoWait ==
    /\ pc = "blocked"
    /\ pc' = "idle"
    /\ ret' = Returned(FetchResult(call.op,
                 IF req.status = "done" THEN ImageOpen(req.bytes) ELSE "img1",
                 IF req.status = "done" THEN req.feature ELSE "feat1",
                 call.coords))
    /\ UNCHANGED <<tiles, latest, call, writes, out, req, issued>>
    /\ ArraysSame

\* run_until_complete hands back the finished request's result, Image.open decodes
\* the bytes, the function returns
FetchReturn ==
    /\ pc = "blocked" /\ req.status = "done"
    /\ pc' = "idle"
    /\ IF Decodable(req.bytes)
       THEN ret' = Returned(FetchResult(call.op, ImageOpen(req.bytes), req.feature,
                                        call.coords))
       ELSE ret' = Raised("UnidentifiedImageError")
    /\ UNCHANGED <<tiles, latest, call, writes, out, req, issued>>
    /\ ArraysSame

\* run_until_complete re-raises the exception of a failed request
FetchRaise ==
    /\ pc = "blocked" /\ req.status = "failed"
    /\ pc' = "idle"
    /\ ret' = Raised("EngineError")
    /\ UNCHANGED <<tiles, latest, call, writes, out, req, issued>>
    /\ ArraysSame

-----------------------------------------------------------------------------
(* compute_index and compute_ndvi *)

\* 1e-6, the unit the band values are counted in
Eps == 1

Band1 == <<"b", "a", "n", "d", "1">>
Band2 == <<"b", "a", "n", "d", "2">>
\* the defaults "band2-band1" and "band2+band1"
DefaultNumerator == Band2 \o <<"-">> \o Band1
DefaultDenominator == Band2 \o <<"+">> \o Band1
Expressions == {DefaultNumerator, DefaultDenominator, Band1 \o <<"-">> \o Band2}

\* Python str.replace(old, new): left to right, occurrences that do not overlap
RECURSIVE Replace(_, _, _)
Replace(s, old, new) ==
    IF Len(s) < Len(old) THEN s
    ELSE IF SubSeq(s, 1, Len(old)) = old
         THEN new \o Replace(SubSeq(s, Len(old) + 1, Len(s)), old, new)
         ELSE <<s[1]>> \o Replace(Tail(s), old, new)

\* expr.replace("band1", "b1").replace("band2", "b2")
Rename(expr) == Replace(Replace(expr, Band1, <<"b", "1">>), Band2, <<"b", "2">>)

ArrAdd(a, b) == [i \in 1..Len(a) |-> a[i] + b[i]]
ArrSub(a, b) == [i \in 1..Len(a) |-> a[i] - b[i]]
ArrAddScalar(a, c) == [i \in 1..Len(a) |-> a[i] + c]

RECURSIVE Gcd(_, _)
Gcd(a, b) == IF b = 0 THEN a ELSE Gcd(b, a % b)
Abs(n) == IF n < 0 THEN -n ELSE n

\* a float quotient: numpy gives nan for 0/0 and a signed inf for x/0 (with a
\* RuntimeWarning, no exception); every other quotient is kept as the reduced
\* fraction, sign in the numerator
Div(n, d) ==
    IF d = 0
    THEN [kind |-> IF n = 0 THEN "nan" ELSE IF n > 0 THEN "inf" ELSE "-inf"]
    ELSE LET g == Gcd(Abs(n), Abs(d))
             sg == IF d < 0 THEN -1 ELSE 1
         IN [kind |-> "finite", num |-> (sg * n) \div g, den |-> (sg * d) \div g]

ArrDiv(a, b) == [i \in 1..Len(a) |-> Div(a[i], b[i])]

LastOperator(s) ==
    IF \E i \in 1..Len(s) : s[i] \in {"+", "-"}
    THEN CHOOSE i \in 1..Len(s) :
            s[i] \in {"+", "-"} /\ \A j \in (i + 1)..Len(s) : s[j] \notin {"+", "-"}
    ELSE 0

\* eval(s) with the locals b1 and b2 in scope, for sums and differences of names
\* (left-associative, elementwise on the arrays)
RECURSIVE Eval(_, _, _)
Eval(s, b1, b2) ==
    LET p == LastOperator(s) IN
    IF p = 0
    THEN CASE s = <<"b", "1">> -> b1
           [] s = <<"b", "2">> -> b2
    ELSE LET l == Eval(SubSeq(s, 1, p - 1), b1, b2)
             r == Eval(SubSeq(s, p + 1, Len(s)), b1, b2)
         IN IF s[p] = "+" THEN ArrAdd(l, r) ELSE ArrSub(l, r)

\* num = eval(numerator.replace(...)) with b1 = red_array, b2 = nir_array
IndexNum(nir, red, numerator) == Eval(Rename(numerator), red, nir)

\* den = eval(denominator.replace(...)) + 1e-6
IndexDen(nir, red, denominator) ==
    ArrAddScalar(Eval(Rename(denominator), red, nir), Eps)

\* mutant: the bands are bound the other way round, b1 = nir_array, b2 = red_array
compute_index_swapped(nir, red, numerator, denominator) ==
    ArrDiv(IndexNum(red, nir, numerator), IndexDen(red, nir, denominator))

compute_index(nir, red, numerator, denominator) ==
    ArrDiv(IndexNum(nir, red, numerator), IndexDen(nir, red, denominator))

\* nir + red + 1e-6
NdviDen(nir, red) == ArrAddScalar(ArrAdd(nir, red), Eps)

\* ndvi = (nir - red) / (nir + red + 1e-6)
compute_ndvi(nir, red) == ArrDiv(ArrSub(nir, red), NdviDen(nir, red))

Array(items) == [tag |-> "array", items |-> items]

CallUnchanged == UNCHANGED <<tiles, latest, writes, out, pc, req, issued,
                             nir_array, red_array>>

ComputeIndex(numerator, denominator) ==
    /\ call' = [op |-> "compute_index", numerator |-> numerator,
                denominator |-> denominator]
    /\ divisor' = IndexDen(nir_array, red_array, denominator)
    /\ ret' = Returned(Array(compute_index(nir_array, red_array, numerator, denominator)))
    /\ CallUnchanged

ComputeNdvi ==
    /\ call' = [op |-> "compute_ndvi"]
    /\ divisor' = NdviDen(nir_array, red_array)
    /\ ret' = Returned(Array(compute_ndvi(nir_array, red_array)))
    /\ CallUnchanged

-----------------------------------------------------------------------------
(* The caller: one thread, any sequence of calls *)

NoCall == [op |-> "none"]

Init ==
    /\ tiles = <<>>
    /\ latest = <<>>
    /\ call = NoCall
    /\ ret = Returned(None)
    /\ writes = <<>>
    /\ out = <<>>
    /\ pc = "idle"
    /\ req = NoReq
    /\ issued = 0
    /\ nir_array = <<>>
    /\ red_array = <<>>
    /\ divisor = <<>>

AddTile ==
    \E name \in Names, p \in TilePairs, coords \in Coords :
        add_tile(name, p[1], p[2], coords)

GetTile == \E name \in Names, coords \in Coords : get_tile(name, coords)

ListTiles == list_tiles

SaveAll == \E output_folder \in Folders, failAt \in 0..MaxTiles + 1 :
               save_all(output_folder, failAt)

SaveTileImage ==
    \E image \in Images, c \in Coords, output_folder \in Folders, ok \in BOOLEAN :
        save_tile_image(image, c[1], c[2], c[3], output_folder, ok)

TrialSaveTileImage ==
    \E image \in Images, c \in Coords, output_folder \in Folders, ok \in BOOLEAN :
        Other_Trials_save_tile_image(image, c[1], c[2], c[3], output_folder, ok)

Fetch ==
    \E fn \in FetchFns, lat \in Lats, lon \in Lons, zoom \in Zooms, loop \in LoopStates :
        FetchCall(fn, lat, lon, zoom, loop)

Engine ==
    \/ \E bytes \in PngBytes, feature \in Features : EngineComplete(bytes, feature)
    \/ EngineFail

Next ==
    \/ AddTile
    \/ GetTile
    \/ ListTiles
    \/ SaveAll
    \/ SaveTileImage
    \/ TrialSaveTileImage
    \/ Fetch
    \/ Engine
    \/ FetchReturn
    \/ FetchRaise

Spec == Init /\ [][Next]_vars

-----------------------------------------------------------------------------
(* The index functions applied to every pair of band arrays of one shape *)

Arrays(n) == [1..n -> BandValues]

IndexInit ==
    /\ \E n \in 1..MaxLen : nir_array \in Arrays(n) /\ red_array \in Arrays(n)
    /\ tiles = <<>>
    /\ latest = <<>>
    /\ call = NoCall
    /\ ret = Returned(None)
    /\ writes = <<>>
    /\ out = <<>>
    /\ pc = "idle"
    /\ req = NoReq
    /\ issued = 0
    /\ divisor = <<>>

IndexNext ==
    \/ \E numerator \in Expressions, denominator \in Expressions :
           ComputeIndex(numerator, denominator)
    \/ ComputeNdvi

SpecIndex == IndexInit /\ [][IndexNext]_vars

-----------------------------------------------------------------------------
(* Properties *)

StoredKeys == {tiles[i].key : i \in 1..Len(tiles)}
AddedKeys == {k[1] \o <<k[2]>> : k \in DOMAIN latest}
IsSet(seq) == \A i, j \in 1..Len(seq) : seq[i] = seq[j] => i = j
Range(seq) == {seq[i] : i \in 1..Len(seq)}
FetchEnded == call.op \in FetchFns /\ pc = "idle"

\* C1: get_tile(name, coords) returns exactly the (image, metadata) pair of the most
\* recent add_tile with the same name and coords, whatever was added under other
\* keys in between.
C1_RoundTrip ==
    (call.op = "get_tile" /\ <<call.coords, call.name>> \in DOMAIN latest)
        => ret = Returned(latest[<<call.coords, call.name>>])

\* C1 witness: the first of two stored keys is read back, holding img2 and its feature
C1_Witness ==
    /\ call.op = "get_tile"
    /\ Len(tiles) = 2
    /\ tiles[1].key = call.coords \o <<call.name>>
    /\ ret = Returned(Pair("img2", "feat2"))

\* C2: every save_tile_image of the repository writes the image to
\* <output_folder>/tile_<z>_<x>_<y>.png, the zoom first, then x, then y.
C2_TilePathZXY ==
    call.op \in {"save_tile_image", "Other_Trials.save_tile_image"}
        => /\ Len(writes) = 1
           /\ writes[1].image = call.image
           /\ writes[1].path = call.folder \o <<"/", "t", "i", "l", "e", "_">>
                  \o IntToStr(call.z) \o <<"_">> \o IntToStr(call.x) \o <<"_">>
                  \o IntToStr(call.y) \o <<".", "p", "n", "g">>

\* C3: with the default denominator "band2+band1" (and in compute_ndvi) the divisor
\* nir + red + 1e-6 is zero at no element, whatever the band values are, a zero or
\* negative sum included.
C3_DivisorNeverZero ==
    (call.op = "compute_ndvi"
       \/ (call.op = "compute_index" /\ call.denominator = DefaultDenominator))
        => \A i \in 1..Len(divisor) : divisor[i] # 0

\* C4: with the default numerator and denominator compute_index returns at every
\* element (nir - red) / (nir + red + 1e-6), band1 being the red array and band2
\* the NIR array, which is also what compute_ndvi returns for the same arrays.
C4_DefaultIndexIsNdvi ==
    (call.op = "compute_index" /\ call.numerator = DefaultNumerator
                               /\ call.denominator = DefaultDenominator)
        => /\ ret.outcome = "returned"
           /\ Len(ret.value.items) = Len(nir_array)
           /\ \A i \in 1..Len(nir_array) :
                 ret.value.items[i] =
                     Div(nir_array[i] - red_array[i], nir_array[i] + red_array[i] + Eps)
           /\ ret.value.items = compute_ndvi(nir_array, red_array)

\* C4 witness: the default index of two-element arrays whose bands differ
C4_Witness ==
    /\ call.op = "compute_index"
    /\ call.numerator = DefaultNumerator /\ call.denominator = DefaultDenominator
    /\ nir_array = <<2, 0>> /\ red_array = <<1, 2>>
    /\ ret.value.items = <<[kind |-> "finite", num |-> 1, den |-> 4],
                           [kind |-> "finite", num |-> -2, den |-> 3]>>

\* C5: a fetch issues exactly one cached_generate_tile request and returns its
\* result only after that request has completed: it never leaves run_until_complete
\* while the request is pending, and the image and feature returned are the ones
\* the request produced.
C5_FetchWaits ==
    /\ issued \in {0, 1}
    /\ (pc = "blocked" \/ FetchEnded) => issued = 1
    /\ FetchEnded => req.status # "pending"
    /\ FetchEnded /\ ret.outcome = "returned" =>
          /\ req.status = "done"
          /\ req.coords = call.coords
          /\ \/ req.bytes = "png1" /\ ret.value.image = "img1"
             \/ req.bytes = "png2" /\ ret.value.image = "img2"
          /\ ret.value.feature = req.feature
          /\ call.op = "fetch_index_tile" => ret.value.coords = req.coords

\* C5 witness: fetch_index_tile has returned the second image with its feature
C5_Witness ==
    /\ call.op = "fetch_index_tile" /\ pc = "idle"
    /\ ret.outcome = "returned"
    /\ ret.value.image = "img2" /\ ret.value.feature = "feat2"
    /\ ret.value.coords = <<1, 1, 1>>

\* C6: the store is keyed by (x, y, z, name) and evicts nothing: its keys are
\* exactly the distinct keys ever passed to add_tile, list_tiles returns each of
\* them once, and an add_tile under one key leaves the value of every other key.
C6_NoEviction ==
    /\ StoredKeys = AddedKeys
    /\ IsSet(DictKeys(tiles))
    /\ \A k \in DOMAIN latest : DictGet(tiles, k[1] \o <<k[2]>>) = latest[k]
    /\ call.op = "list_tiles" =>
          /\ ret.outcome = "returned"
          /\ IsSet(ret.value.items)
          /\ Range(ret.value.items) = AddedKeys
          /\ Len(ret.value.items) = Cardinality(DOMAIN latest)

\* C6 witness: list_tiles returns two keys of the same tile that differ in the name
C6_Witness ==
    /\ call.op = "list_tiles"
    /\ Len(ret.value.items) = 2
    /\ SubSeq(ret.value.items[1], 1, 3) = SubSeq(ret.value.items[2], 1, 3)
    /\ ret.value.items[1][4] # ret.value.items[2][4]

\* C7: a failure raises to the caller: a failed engine request ends the fetch with
\* an exception and no second request, a failed image.save ends save_tile_image
\* and save_all with an exception, the failed write is attempted once, save_all
\* attempts no entry after the failing one, and the store keeps its contents.
C7_FailuresPropagate ==
    /\ [](FetchEnded /\ req.status = "failed" => ret.outcome = "raised" /\ issued = 1)
    /\ [](call.op \in {"save_tile_image", "save_all"} =>
            /\ (\E i \in 1..Len(writes) : ~writes[i].ok) <=> ret.outcome = "raised"
            /\ \A i \in 1..Len(writes) : ~writes[i].ok => i = Len(writes)
            /\ IsSet([i \in 1..Len(writes) |-> writes[i].path])
            /\ ret.outcome = "raised" => out = <<>>)
    /\ [](call.op = "save_all" =>
            /\ Len(writes) <= Len(tiles)
            /\ \A i \in 1..Len(writes) : writes[i].image = tiles[i].value.image)
    /\ [][pc = "blocked" /\ req.status = "failed" =>
            pc' = "idle" /\ ret'.outcome = "raised" /\ req' = req /\ issued' = 1]_vars
    /\ [][ret'.outcome = "raised" => tiles' = tiles]_vars

\* C7 witness: save_all raised at the first of two stored entries
C7_Witness ==
    /\ call.op = "save_all" /\ ret.outcome = "raised"
    /\ Len(tiles) = 2 /\ Len(writes) = 1 /\ ~writes[1].ok

\* C8: when no write fails, save_all writes each stored entry's image to
\* <output_folder>/<name>_<z>_<x>_<y>.png, one write per entry and no other, and
\* leaves the store's keys and values as they were.
C8_SaveAllWritesEach ==
    /\ [](call.op = "save_all" /\ ret.outcome = "returned" =>
            /\ Len(writes) = Len(tiles)
            /\ \A i \in 1..Len(tiles) :
                  writes[i] =
                    [path |-> call.folder \o <<"/">> \o tiles[i].key[4] \o <<"_">>
                                \o IntToStr(tiles[i].key[3]) \o <<"_">>
                                \o IntToStr(tiles[i].key[1]) \o <<"_">>
                                \o IntToStr(tiles[i].key[2]) \o <<".", "p", "n", "g">>,
                     image |-> tiles[i].value.image,
                     ok |-> TRUE])
    /\ [][call'.op = "save_all" => tiles' = tiles]_vars

\* C8 witness: save_all has written two entries, the first with name a_1
C8_Witness ==
    /\ call.op = "save_all" /\ ret.outcome = "returned"
    /\ Len(writes) = 2
    /\ tiles[1].key = <<0, 1, 1, <<"a", "_", "1">>>>
    /\ writes[1].path = <<".", "/", "a", "_", "1", "_", "1", "_", "0", "_", "1",
                          ".", "p", "n", "g">>

\* C9: get_tile and list_tiles never change the store, and get_tile of a key that
\* was never added returns None, raising nothing and creating no entry.
C9_ReadsLeaveStore ==
    /\ [](call.op = "get_tile" /\ <<call.coords, call.name>> \notin DOMAIN latest
            => ret = Returned(None))
    /\ [][call'.op \in {"get_tile", "list_tiles"} => tiles' = tiles]_vars

\* C9 witness: get_tile of a key never added, on a store holding another name of
\* the same tile
C9_Witness ==
    /\ call.op = "get_tile"
    /\ <<call.coords, call.name>> \notin DOMAIN latest
    /\ \E k \in DOMAIN latest : k[1] = call.coords
    /\ ret = Returned(None)

\* C10: two distinct store keys never map to one file: in whatever folder, the
\* paths of the stored entries differ pairwise, so a save_all without a failure
\* writes as many distinct files as the summary message counts.
C10_PathsDistinct ==
    /\ \A f \in Folders : \A i, j \in 1..Len(tiles) :
          CubePath(f, tiles[i].key) = CubePath(f, tiles[j].key) => i = j
    /\ call.op = "save_all" /\ ret.outcome = "returned" =>
          /\ Cardinality({writes[i].path : i \in 1..Len(writes)}) = Len(tiles)
          /\ out = <<SavedMessage(Len(tiles), call.folder)>>

\* C10 witness: save_all has written a tile stored under the names a and a_1
C10_Witness ==
    /\ call.op = "save_all" /\ ret.outcome = "returned"
    /\ Len(tiles) = 2
    /\ SubSeq(tiles[1].key, 1, 3) = SubSeq(tiles[2].key, 1, 3)
    /\ {tiles[1].key[4], tiles[2].key[4]} = Names
    /\ out[1].n = 2

====
